---- MODULE Spec2Model ----
(***************************************************************************)
(* The resumable chunked download core of TeXPen:                          *)
(*   ChunkStore        src/services/downloader/v2/ChunkStore.ts   1-166    *)
(*   DownloadScheduler src/services/downloader/v2/ChunkStore.ts 266-366    *)
(*   DownloadJob       src/services/downloader/v2/DownloadJob.ts           *)
(*   DownloadManager   src/services/downloader/DownloadManager.ts 168-291  *)
(* Every `await` of the source is a step boundary: the code between two    *)
(* awaits runs atomically on the single-threaded event loop.               *)
(*                                                                         *)
(* Fourteen specifications share the definitions:                              *)
(*   Spec       one URL, two callers of downloadFile, byte-exact jobs, a   *)
(*              server that may or may not honour Range, transport and     *)
(*              quota failures; nothing calls pause() (as in the           *)
(*              repository, where no code calls it).                       *)
(*   PauseSpec  one URL, one caller, a server that honours Range, and an   *)
(*              environment that calls the public pause() and start() of   *)
(*              a job, guarded only by what the methods themselves check.  *)
(*   ConcSpec   as Spec with one more caller, one body and no quota        *)
(*              handler: the interleavings of jobs and finalizations.      *)
(*   EtagSpec   as Spec without a quota handler, and the server may publish *)
(*              a new version of the resource (new body, new Etag) at any  *)
(*              moment.                                                    *)
(*   SchedSpec  several URLs and callers; a job's _execute is reduced to   *)
(*              its outcome (it completes or throws), the scheduler is     *)
(*              modelled in full.                                          *)
(*   CancelSpec as SchedSpec, and deleteFromCache may be called for a URL   *)
(*              that has a job.                                            *)
(*   UnavailSpec as SchedSpec, with a persistent store that cannot be       *)
(*              opened.                                                    *)
(*   SchedFairSpec SchedSpec with fairness: every running job ends.         *)
(*   DeleteSpec one download against an honest server, and one              *)
(*              deleteFromCache of its URL while the job exists.           *)
(*   LengthSpec as Spec, and the server may also state a Content-Length     *)
(*              that is not the length of the body it sends.               *)
(*   IntegritySpec checkCacheIntegrity applied to any cache entry.          *)
(*   StoreSpec  the ChunkStore alone: users call appendChunk, clear and     *)
(*              getStream with any arguments, in any order.                *)
(*   RetryFairSpec downloadFile called again and again for one URL, each    *)
(*              call after the last has settled; the first calls meet any  *)
(*              server, the later ones a correct one, and the last caller  *)
(*              calls again whenever it is rejected; with fairness.        *)
(*   FallbackSpec as PauseSpec, with a store that may refuse a chunk for    *)
(*              lack of quota and a quota handler.                         *)
(***************************************************************************)
EXTENDS Integers, Sequences, FiniteSets

(* ---- bounds of the model ---- *)
MaxBody == 3        \* longest server body, in bytes
MaxRead == 2        \* most bytes one reader.read() returns
bufferSize == 2     \* DownloadJob.bufferSize (5 MiB in the source), scaled down
NumCallers == 2     \* downloadFile calls in Spec
ConcCallers == 3    \* downloadFile calls in ConcSpec
MaxRuns == 2        \* executions of one job that may be in flight at once
MaxRestarts == 2    \* start() calls on a paused job in PauseSpec
NumUrls == 5        \* URLs in SchedSpec
SchedCallers == 5   \* download calls in SchedSpec
NumVersions == 2    \* versions of the resource the server publishes in EtagSpec
StoreClients == 1   \* direct users of the ChunkStore in StoreSpec
MaxIndex == 2       \* largest chunk index a direct user passes in StoreSpec
MaxStored == 4      \* cap on downloadedBytes in StoreSpec
HashRange == 5      \* number of values of the checksum in IntegritySpec
RetryCallers == 4   \* downloadFile calls, one after the other, in RetryFairSpec
Unreliable == 2     \* first calls of RetryFairSpec served by an arbitrary server

(* ---- program constants ---- *)
MAX_CONCURRENT == 3

VARIABLES
  server,        \* the resource served for the URL: [body, etag]
  meta,          \* ChunkStore 'metadata' object store: url -> record
  chunks,        \* ChunkStore 'chunks' object store: url -> (index -> blob)
  cache,         \* Cache API entry per url: [exists, bytes, contentLength]
  quotaHandler,  \* DownloadScheduler.quotaHandler is set
  jobs,          \* DownloadScheduler.jobs: url -> job id, 0 when absent
  queue,         \* DownloadScheduler.queue
  activeCount,   \* DownloadScheduler.activeCount
  job,           \* the DownloadJob objects, by id
  run,           \* the executions of DownloadJob.start in flight, per job
  call,          \* the downloadFile calls, by caller
  honoured       \* history: every response so far honoured the Range header

vars == <<server, meta, chunks, cache, quotaHandler, jobs, queue, activeCount,
          job, run, call, honoured>>

(* ---- bytes and blobs ---- *)
Max(a, b) == IF a >= b THEN a ELSE b
Min(a, b) == IF a <= b THEN a ELSE b

\* The body of length L: pairwise distinct bytes, so that any loss,
\* duplication or reordering of a segment changes the sequence.
Bytes(L) == [i \in 1..L |-> i]

\* The body of length L of version v of the resource (Bytes(L) is version 1),
\* and the version a byte belongs to.
VersionBytes(L, v) == [i \in 1..L |-> i + (v - 1) * MaxBody]
Version(b) == ((b - 1) \div MaxBody) + 1

Take(s, n) == SubSeq(s, 1, n)
Drop(s, n) == SubSeq(s, n + 1, Len(s))

\* new Blob(parts): the concatenation of the parts.
RECURSIVE Blob(_)
Blob(parts) == IF parts = <<>> THEN <<>> ELSE Head(parts) \o Blob(Tail(parts))

(* ---- ChunkStore ---- *)
NoEtag == 0
NoMeta == [exists |-> FALSE, totalBytes |-> 0, downloadedBytes |-> 0,
           chunkCount |-> 0, etag |-> NoEtag]
NoChunks == [i \in {} |-> <<>>]

\* appendChunk, the metadata half of the transaction.
appendChunkMeta(m, chunk, index, totalBytes, etag) ==
  LET base == IF m.exists THEN m
              ELSE [exists |-> TRUE, totalBytes |-> totalBytes,
                    downloadedBytes |-> 0, chunkCount |-> 0, etag |-> etag]
  IN [base EXCEPT !.chunkCount = Max(base.chunkCount, index + 1),
                  !.downloadedBytes = IF index = 0 THEN Len(chunk)
                                      ELSE base.downloadedBytes + Len(chunk),
                  !.totalBytes = totalBytes]

\* appendChunk, the chunk half: chunkStore.put(chunk, [url, index]).
appendChunkData(t, chunk, index) ==
  [i \in (DOMAIN t) \cup {index} |-> IF i = index THEN chunk ELSE t[i]]

\* One pull of the stream of getStream at position index.
hasChunk(t, index) == index \in DOMAIN t

(* ---- Cache API ---- *)
NoEntry == [exists |-> FALSE, bytes |-> <<>>, contentLength |-> 0]

(* ---- DownloadScheduler.processQueue ---- *)
RECURSIVE processQueue_nolimit(_, _, _)
processQueue_nolimit(q, n, started) ==
  IF q = <<>>
  THEN [queue |-> q, activeCount |-> n, started |-> started]
  ELSE processQueue_nolimit(Tail(q), n + 1, started \cup {Head(q)})

processQueue_idle(q, n, started) ==
  [queue |-> q, activeCount |-> n, started |-> started]

RECURSIVE processQueue_lifo(_, _, _)
processQueue_lifo(q, n, started) ==
  IF n >= MAX_CONCURRENT \/ q = <<>>
  THEN [queue |-> q, activeCount |-> n, started |-> started]
  ELSE processQueue_lifo(SubSeq(q, 1, Len(q) - 1), n + 1,
                         started \cup {q[Len(q)]})

\* q, n: queue and activeCount on entry; started: the jobs start() was called on.
RECURSIVE processQueue(_, _, _)
processQueue(q, n, started) ==
  IF n >= MAX_CONCURRENT \/ q = <<>>
  THEN [queue |-> q, activeCount |-> n, started |-> started]
  ELSE processQueue(Tail(q), n + 1, started \cup {Head(q)})

(* ---- DownloadJob objects and executions ---- *)
\* No response: status 0.
NoResp == [status |-> 0, cl |-> 0, cr |-> -1, from |-> 0, etag |-> NoEtag]

NoBlob == [has |-> FALSE, bytes |-> <<>>]

\* The fields of a DownloadJob; the last line is history: the last response
\* (seen), the startByte it answered (from), how it was classified (via), the
\* bytes the store held when the execution resumed (prev), and the body of
\* the last 2xx response (respBody).
NoJob == [url |-> 0, status |-> "none", isMemoryMode |-> FALSE,
          memoryChunks |-> <<>>, hasQuotaHandler |-> FALSE,
          ctlAborted |-> FALSE, cb |-> 0, error |-> "none",
          restarts |-> 0, quotaAllowed |-> FALSE,
          seen |-> NoResp, from |-> 0, via |-> "none", prev |-> <<>>,
          respBody |-> <<>>]

\* new DownloadJob(url, store), setQuotaHandler when the scheduler has one.
NewJob(u) == [NoJob EXCEPT !.url = u, !.status = "pending",
                           !.hasQuotaHandler = quotaHandler]

\* The locals of one execution of _execute and its place (pc). cur: the
\* signal it passed to fetch is the job's current AbortController; aborted:
\* that signal is aborted. base and after416 are history: the chunk index the
\* execution resumed at, and whether it restarted after a 416.
OffRun == [pc |-> "off", cur |-> FALSE, aborted |-> FALSE, startByte |-> 0,
           chunkIndex |-> 0, base |-> 0, totalSize |-> 0, range |-> 0,
           metaExists |-> FALSE, metaEtag |-> NoEtag, metaTotal |-> 0,
           resp |-> NoResp, body |-> <<>>, pending |-> <<>>, final |-> FALSE,
           rec |-> 0, after416 |-> FALSE]

\* start(), lines 48-55, up to the first await of _execute.
NewRun == [OffRun EXCEPT !.pc = "getMeta"]

StartedJob(jr) == [jr EXCEPT !.status = "running", !.error = "none",
                             !.ctlAborted = FALSE]

Slots == 1..MaxRuns
FreeSlots(j) == {s \in Slots : run[j][s].pc = "off"}
FreeSlot(j) == CHOOSE s \in FreeSlots(j) : \A t \in FreeSlots(j) : s <= t

\* checkCacheIntegrity called without an expected checksum.
NoChecksum == -1

\* A call of downloadFile or of deleteFromCache, or a direct user of the
\* ChunkStore. progress and was are history: what the cache-hit branch of
\* downloadFile (lines 196-201) has passed to onProgress ("none": it has not
\* called it), and the status the job of the URL had when deleteFromCache
\* was called. etag: the Etag a direct user passed to appendChunk. expected:
\* the checksum passed to checkCacheIntegrity.
NoCall == [pc |-> "idle", url |-> 0, job |-> 0, blob |-> NoBlob,
           n |-> 0, idx |-> 0, bytes |-> <<>>, cl |-> 0, error |-> "none",
           progress |-> "none", was |-> "none", etag |-> NoEtag,
           expected |-> NoChecksum]

(* ---- the server ---- *)
\* A response: status, Content-Length, the N of "Content-Range: */N" (-1 when
\* the header is absent), the offset of the resource its body starts at, Etag.
Response(status, from, cr) ==
  [status |-> status,
   cl |-> IF status \in {200, 206} THEN Len(server.body) - from ELSE 0,
   cr |-> cr, from |-> from, etag |-> server.etag]

\* The answer of a server that honours "Range: bytes=s-" (s = 0: no header).
HonestResponse(s) ==
  IF s = 0 THEN Response(200, 0, -1)
  ELSE IF s < Len(server.body) THEN Response(206, s, -1)
  ELSE Response(416, 0, Len(server.body))

\* Every answer the job may receive: the honest one, 200 with the full body
\* whatever the Range, 416 with any or no Content-Range, a server error.
AnyResponses(s) ==
  {HonestResponse(s), Response(200, 0, -1), Response(500, 0, -1)}
    \cup {Response(416, 0, n) : n \in -1..MaxBody}

Responses(env, s) == IF env = "honest" THEN {HonestResponse(s)}
                     ELSE AnyResponses(s)

\* The answers whose Content-Length is not the length of the body the
\* reader delivers (a body encoded in transit, a server that miscounts).
MiscountedResponses(s) ==
  {[resp EXCEPT !.cl = n] :
     resp \in {a \in {HonestResponse(s), Response(200, 0, -1)} :
                 a.status \in {200, 206}},
     n \in 1..(MaxBody + 1)}
    \ {HonestResponse(s), Response(200, 0, -1)}

(* ---- DownloadJob.start, after _execute: lines 56-73, and the callbacks ---- *)
(* ---- DownloadScheduler.waitForJob installed on the job                 ---- *)
\* The execution s of job j ends; jr is the job as the execution leaves it.
Finish(j, s, jr, outcome, err) ==
  IF outcome = "paused"
  THEN /\ job' = [job EXCEPT ![j] = [jr EXCEPT !.status = "paused"]]
       /\ run' = [run EXCEPT ![j][s] = OffRun]
       /\ UNCHANGED <<jobs, queue, activeCount, call>>
  ELSE LET c == jr.cb
           pq == processQueue(queue, activeCount - 1, {})
           result == IF outcome = "completed" /\ jr.isMemoryMode
                     THEN [has |-> TRUE, bytes |-> Blob(jr.memoryChunks)]
                     ELSE NoBlob
       IN /\ jobs' = [jobs EXCEPT ![jr.url] = 0]
          /\ queue' = pq.queue
          /\ activeCount' = pq.activeCount
          /\ job' = [k \in DOMAIN job |->
                       IF k = j THEN [jr EXCEPT !.status = outcome, !.error = err]
                       ELSE IF k \in pq.started THEN StartedJob(job[k])
                       ELSE job[k]]
          /\ run' = [k \in DOMAIN run |->
                       IF k = j THEN [run[j] EXCEPT ![s] = OffRun]
                       ELSE IF k \in pq.started
                            THEN [run[k] EXCEPT ![FreeSlot(k)] = NewRun]
                       ELSE run[k]]
          /\ call' = IF c # 0 /\ call[c].pc = "waiting"
                     THEN [call EXCEPT
                             ![c].pc = IF outcome = "completed" THEN "finalize"
                                       ELSE "failed",
                             ![c].blob = result,
                             ![c].error = err]
                     ELSE call

\* The execution goes on to its next await.
Continue(j, s, r) ==
  /\ run' = [run EXCEPT ![j][s] = r]
  /\ UNCHANGED <<jobs, queue, activeCount, call>>

(* ---- DownloadScheduler.download and waitForJob ---- *)
download_nodedupe(c, u) ==
  LET j == c
      pq == processQueue(Append(queue, j), activeCount, {})
      created == [job EXCEPT ![j] = [NewJob(u) EXCEPT !.cb = c]]
  IN /\ jobs' = [jobs EXCEPT ![u] = j]
     /\ queue' = pq.queue
     /\ activeCount' = pq.activeCount
     /\ job' = [k \in DOMAIN job |-> IF k \in pq.started
                                     THEN StartedJob(created[k]) ELSE created[k]]
     /\ run' = [k \in DOMAIN run |->
                  IF k \in pq.started THEN [run[k] EXCEPT ![FreeSlot(k)] = NewRun]
                  ELSE run[k]]
     /\ call' = [call EXCEPT ![c] = [NoCall EXCEPT !.pc = "waiting", !.url = u,
                                                   !.job = j]]

\* The job a call creates carries the caller's number.
download(c, u) ==
  IF jobs[u] # 0
  THEN /\ job' = [job EXCEPT ![jobs[u]].cb = c]
       /\ call' = [call EXCEPT ![c] = [NoCall EXCEPT !.pc = "waiting", !.url = u,
                                                     !.job = jobs[u]]]
       /\ UNCHANGED <<jobs, queue, activeCount, run>>
  ELSE LET j == c
           pq == processQueue(Append(queue, j), activeCount, {})
           created == [job EXCEPT ![j] = [NewJob(u) EXCEPT !.cb = c]]
       IN /\ jobs' = [jobs EXCEPT ![u] = j]
          /\ queue' = pq.queue
          /\ activeCount' = pq.activeCount
          /\ job' = [k \in DOMAIN job |-> IF k \in pq.started
                                          THEN StartedJob(created[k])
                                          ELSE created[k]]
          /\ run' = [k \in DOMAIN run |->
                       IF k \in pq.started
                       THEN [run[k] EXCEPT ![FreeSlot(k)] = NewRun]
                       ELSE run[k]]
          /\ call' = [call EXCEPT ![c] = [NoCall EXCEPT !.pc = "waiting",
                                                        !.url = u, !.job = j]]

(* ---- DownloadManager.downloadFile, lines 189-202: cache.match settles ---- *)
\* The calls are numbered in the order they are made, the URLs in the order
\* they are first asked for.
CacheMatch(c, u) ==
  /\ call[c].pc = "idle"
  /\ \A d \in DOMAIN call : d < c => call[d].pc # "idle"
  /\ u <= 1 + Cardinality({call[d].url : d \in DOMAIN call} \ {0})
  /\ call' = [call EXCEPT ![c] =
                [NoCall EXCEPT !.url = u,
                               !.pc = IF cache[u].exists
                                         /\ cache[u].contentLength > 0
                                      THEN "resolved" ELSE "missed"]]
  /\ UNCHANGED <<server, meta, chunks, cache, quotaHandler, jobs, queue,
                 activeCount, job, run, honoured>>

(* ---- DownloadManager.downloadFile, lines 204-213: scheduler.download ---- *)
Download(c) ==
  /\ call[c].pc = "missed"
  /\ download(c, call[c].url)
  /\ UNCHANGED <<server, meta, chunks, cache, quotaHandler, honoured>>

(* ---- ChunkStore.clear ---- *)
clear(u) ==
  /\ meta' = [meta EXCEPT ![u] = NoMeta]
  /\ chunks' = [chunks EXCEPT ![u] = NoChunks]

\* The bytes of the chunks 0..n-1 of u, when all are stored.
StoredBytes(u, n) ==
  IF \A i \in 0..(n - 1) : hasChunk(chunks[u], i)
  THEN Blob([i \in 1..n |-> chunks[u][i - 1]])
  ELSE <<>>

(* ---- DownloadJob._execute, lines 84-106: resumption check, request ---- *)
\* Lines 87-92: startByte and chunkIndex adopted from the metadata m.
resumeFrom(m) ==
  IF m.exists /\ m.downloadedBytes > 0
  THEN [startByte |-> m.downloadedBytes, chunkIndex |-> m.chunkCount]
  ELSE [startByte |-> 0, chunkIndex |-> 0]

\* getMetadata settles; stale metadata without bytes is cleared; fetch is
\* called with "Range: bytes=startByte-" when startByte > 0 (range = 0: no
\* header) and with the signal of the job's current AbortController.
GetMeta(j, s) ==
  LET r == run[j][s]
      u == job[j].url
      m == meta[u]
      from == resumeFrom(m)
  IN /\ r.pc = "getMeta"
     /\ IF m.exists /\ m.downloadedBytes <= 0 THEN clear(u)
        ELSE UNCHANGED <<meta, chunks>>
     /\ Continue(j, s, [r EXCEPT !.pc = "fetch",
                                 !.startByte = from.startByte,
                                 !.chunkIndex = from.chunkIndex,
                                 !.base = from.chunkIndex,
                                 !.metaExists = m.exists, !.metaEtag = m.etag,
                                 !.metaTotal = m.totalBytes,
                                 !.range = from.startByte,
                                 !.cur = TRUE, !.aborted = job[j].ctlAborted,
                                 !.body = <<>>, !.pending = <<>>])
     /\ job' = [job EXCEPT ![j].prev = StoredBytes(u, from.chunkIndex)]
     /\ UNCHANGED <<server, cache, quotaHandler, honoured>>

(* ---- DownloadJob._execute, lines 108-167: the response is classified ---- *)
\* resp.status = 0 stands for fetch rejecting (transport failure).
rangeDone_gt(startByte, cr) == cr # -1 /\ startByte > cr

\* Lines 110-118: Content-Range "bytes */N" was parsed (cr = N, -1 when the
\* header is missing or does not match) and startByte >= N.
rangeDone(startByte, cr) == cr # -1 /\ startByte >= cr

Classify(j, s, resp) ==
  LET r == [run[j][s] EXCEPT !.resp = resp]
      u == job[j].url
      jr == [job[j] EXCEPT !.seen = resp, !.from = r.startByte]
      total == resp.cl + r.startByte
      body == Drop(server.body, resp.from)
      mismatch == /\ r.metaExists
                  /\ r.metaEtag # NoEtag
                  /\ resp.etag # NoEtag
                  /\ r.metaEtag # resp.etag
  IN CASE resp.status = 0 ->
            /\ Finish(j, s, [jr EXCEPT !.via = "rejected"], "error", "network")
            /\ UNCHANGED <<meta, chunks>>
       [] resp.status = 416 ->
            IF rangeDone(r.startByte, resp.cr)
            THEN \* "We are done"
                 /\ Finish(j, s, [jr EXCEPT !.via = "done416"],
                           "completed", "none")
                 /\ UNCHANGED <<meta, chunks>>
            ELSE /\ Continue(j, s, [r EXCEPT !.pc = "clear416"])
                 /\ job' = [job EXCEPT ![j] = [jr EXCEPT !.via = "restart416"]]
                 /\ UNCHANGED <<meta, chunks>>
       [] resp.status \notin {0, 200, 206, 416} ->
            /\ Finish(j, s, [jr EXCEPT !.via = "http"], "error", "http")
            /\ UNCHANGED <<meta, chunks>>
       [] OTHER ->
            IF mismatch
            THEN \* store.clear, abortController.abort(), throw
                 /\ clear(u)
                 /\ Finish(j, s, [jr EXCEPT !.ctlAborted = TRUE,
                                            !.via = "validator"],
                           "error", "etag")
            ELSE IF r.startByte > 0 /\ resp.status = 200
            THEN /\ Continue(j, s, [r EXCEPT !.pc = "clear200",
                                             !.totalSize = total,
                                             !.body = body])
                 /\ job' = [job EXCEPT ![j] = [jr EXCEPT !.via = "reset200",
                                                         !.respBody = body]]
                 /\ UNCHANGED <<meta, chunks>>
            ELSE /\ Continue(j, s, [r EXCEPT !.pc = "read",
                                             !.totalSize = total,
                                             !.body = body])
                 /\ job' = [job EXCEPT ![j] =
                              [jr EXCEPT
                                 !.via = IF resp.status = 206 THEN "resumed206"
                                         ELSE "plain200",
                                 !.respBody = body]]
                 /\ UNCHANGED <<meta, chunks>>

\* The fetch of line 103 settles: it rejects with AbortError when its signal
\* is aborted, it rejects on a transport failure, or a response arrives.
Fetch(env, j, s) ==
  LET r == run[j][s]
      answers == Responses(env, r.range)
                   \cup (IF env = "any" THEN {NoResp} ELSE {})
  IN /\ r.pc = "fetch"
     /\ UNCHANGED <<server, cache, quotaHandler>>
     /\ IF r.aborted
        THEN /\ Finish(j, s, job[j], "paused", "none")
             /\ UNCHANGED <<meta, chunks, honoured>>
        ELSE \E resp \in answers :
               /\ Classify(j, s, resp)
               /\ honoured' = (honoured /\ (resp.status \in {0, 500}
                                            \/ resp = HonestResponse(r.range)))

(* ---- DownloadJob._execute, lines 119-131: 416 short of the server size ---- *)
\* store.clear, then `return this._execute()`.
Clear416(j, s) ==
  LET r == run[j][s]
  IN /\ r.pc = "clear416"
     /\ clear(job[j].url)
     /\ Continue(j, s, [r EXCEPT !.pc = "getMeta", !.after416 = TRUE])
     /\ UNCHANGED <<server, cache, quotaHandler, job, honoured>>

(* ---- DownloadJob._execute, lines 155-161: 200 answers a ranged request ---- *)
\* totalSize was computed on line 135-137, before this reset, and is kept.
Clear200(j, s) ==
  LET r == run[j][s]
  IN /\ r.pc = "clear200"
     /\ clear(job[j].url)
     /\ Continue(j, s, [r EXCEPT !.pc = "read", !.startByte = 0,
                                 !.chunkIndex = 0])
     /\ UNCHANGED <<server, cache, quotaHandler, job, honoured>>

\* The fetch of line 103 is answered with a miscounted Content-Length.
FetchMiscounted(j, s) ==
  LET r == run[j][s]
  IN /\ r.pc = "fetch"
     /\ ~r.aborted
     /\ UNCHANGED <<server, cache, quotaHandler>>
     /\ \E resp \in MiscountedResponses(r.range) :
          /\ Classify(j, s, resp)
          /\ honoured' = FALSE

(* ---- DownloadJob._execute, lines 225-250: the read loop ---- *)
\* Line 246: the buffer is flushed once it holds bufferSize bytes.
shouldFlush_gt(pendingSize) == pendingSize > bufferSize

shouldFlush(pendingSize) == pendingSize >= bufferSize

\* One reader.read(): n = -1 the read rejects (transport failure), n = 0 the
\* body is done, n > 0 the next n bytes arrive. flush runs up to its await.
Read(env, j, s) ==
  LET r == run[j][s]
      jr == job[j]
      outcomes == (IF env = "any" THEN {-1} ELSE {})
                    \cup (IF r.body = <<>> THEN {0}
                          ELSE 1..Min(MaxRead, Len(r.body)))
  IN /\ r.pc = "read"
     /\ UNCHANGED <<server, meta, chunks, cache, quotaHandler, honoured>>
     /\ IF r.aborted
        THEN Finish(j, s, jr, "paused", "none")
        ELSE \E n \in outcomes :
          IF n = -1 THEN Finish(j, s, jr, "error", "network")
          ELSE IF n = 0
          THEN IF r.pending = <<>>
               THEN Finish(j, s, jr, "completed", "none")
               ELSE IF jr.isMemoryMode
               THEN Finish(j, s, [jr EXCEPT !.memoryChunks =
                                              Append(@, r.pending)],
                           "completed", "none")
               ELSE /\ Continue(j, s, [r EXCEPT !.pc = "append",
                                                !.final = TRUE])
                    /\ UNCHANGED job
          ELSE LET p == r.pending \o Take(r.body, n)
                   r1 == [r EXCEPT !.body = Drop(r.body, n), !.pending = p]
               IN IF ~shouldFlush(Len(p))
                  THEN Continue(j, s, r1) /\ UNCHANGED job
                  ELSE IF jr.isMemoryMode
                  THEN /\ Continue(j, s, [r1 EXCEPT !.pending = <<>>])
                       /\ job' = [job EXCEPT ![j].memoryChunks = Append(@, p)]
                  ELSE /\ Continue(j, s, [r1 EXCEPT !.pc = "append",
                                                    !.final = FALSE])
                       /\ UNCHANGED job

(* ---- DownloadJob flush, lines 184-186 and 203-219: appendChunk settles ---- *)
\* chunkIndex++ is evaluated with the call, so it is advanced on failure too.
AppendChunk(env, j, s) ==
  LET r == run[j][s]
      jr == job[j]
      u == jr.url
      r1 == [r EXCEPT !.chunkIndex = r.chunkIndex + 1]
      outcomes == {"stored"} \cup (IF env = "any" THEN {"quota"} ELSE {})
  IN /\ r.pc = "append"
     /\ UNCHANGED <<server, cache, quotaHandler, honoured>>
     /\ \E o \in outcomes :
          IF o = "stored"
          THEN /\ meta' = [meta EXCEPT ![u] =
                             appendChunkMeta(meta[u], r.pending, r.chunkIndex,
                                             r.totalSize, r.resp.etag)]
               /\ chunks' = [chunks EXCEPT ![u] =
                               appendChunkData(chunks[u], r.pending,
                                               r.chunkIndex)]
               /\ IF r.final
                  THEN Finish(j, s, jr, "completed", "none")
                  ELSE /\ Continue(j, s, [r1 EXCEPT !.pc = "read",
                                                    !.pending = <<>>])
                       /\ UNCHANGED job
          ELSE /\ UNCHANGED <<meta, chunks>>
               /\ IF jr.hasQuotaHandler
                  THEN /\ Continue(j, s, [r1 EXCEPT !.pc = "quota"])
                       /\ UNCHANGED job
                  ELSE Finish(j, s, jr, "error", "quota")

(* ---- DownloadJob flush, lines 187-190: the quota handler answers ---- *)
Quota(j, s) ==
  LET r == run[j][s]
      jr == job[j]
  IN /\ r.pc = "quota"
     /\ UNCHANGED <<server, meta, chunks, cache, quotaHandler, honoured>>
     /\ \E allowed \in BOOLEAN :
          IF allowed
          THEN /\ Continue(j, s, [r EXCEPT !.pc = "recover", !.rec = 0])
               /\ job' = [job EXCEPT ![j].isMemoryMode = TRUE,
                                     ![j].quotaAllowed = TRUE]
          ELSE Finish(j, s, jr, "error", "quota")

(* ---- DownloadJob flush, lines 191-202: the stored chunks are read back ---- *)
\* One pull of getStream(this.id, chunkIndex); rec is the stream's position.
Recover(j, s) ==
  LET r == run[j][s]
      jr == job[j]
      u == jr.url
  IN /\ r.pc = "recover"
     /\ UNCHANGED <<server, cache, quotaHandler, honoured>>
     /\ IF r.rec >= r.chunkIndex
        THEN \* the stream closed: store.clear, the failed chunk is pushed
             /\ clear(u)
             /\ IF r.final
                THEN Finish(j, s, [jr EXCEPT !.memoryChunks =
                                               Append(@, r.pending)],
                            "completed", "none")
                ELSE /\ Continue(j, s, [r EXCEPT !.pc = "read",
                                                 !.pending = <<>>,
                                                 !.chunkIndex = @ + 1])
                     /\ job' = [job EXCEPT ![j].memoryChunks =
                                             Append(@, r.pending)]
        ELSE IF hasChunk(chunks[u], r.rec)
        THEN /\ Continue(j, s, [r EXCEPT !.rec = r.rec + 1])
             /\ job' = [job EXCEPT ![j].memoryChunks =
                                     Append(@, chunks[u][r.rec])]
             /\ UNCHANGED <<meta, chunks>>
        ELSE \* "Missing chunk": the stream errors, the quota error is rethrown
             /\ Finish(j, s, jr, "error", "quota")
             /\ UNCHANGED <<meta, chunks>>

(* ---- DownloadManager.finalizeCache, lines 219-249 ---- *)
\* With a memory blob the response is put at once; otherwise the metadata is
\* read and checked and the stream of the stored chunks is opened.
finalizeCheck_nointegrity(m) ==
  IF ~m.exists THEN "metadata" ELSE "ok"

\* Lines 233-238: the error finalizeCache throws on the metadata m, or "ok".
finalizeCheck(m) ==
  IF ~m.exists THEN "metadata"
  ELSE IF m.downloadedBytes # m.totalBytes THEN "integrity"
  ELSE "ok"

Finalize(c) ==
  LET k == call[c]
      u == k.url
      m == meta[u]
  IN /\ k.pc = "finalize"
     /\ UNCHANGED <<server, meta, chunks, quotaHandler, jobs, queue,
                    activeCount, job, run, honoured>>
     /\ IF k.blob.has
        THEN /\ cache' = [cache EXCEPT ![u] =
                            [exists |-> TRUE, bytes |-> k.blob.bytes,
                             contentLength |-> Len(k.blob.bytes)]]
             /\ call' = [call EXCEPT ![c].pc = "finclear"]
        ELSE /\ UNCHANGED cache
             /\ call' = [call EXCEPT ![c] =
                  IF finalizeCheck(m) # "ok"
                  THEN [k EXCEPT !.pc = "failed", !.error = finalizeCheck(m)]
                  ELSE [k EXCEPT !.pc = "stream", !.n = m.chunkCount,
                                 !.idx = 0, !.bytes = <<>>,
                                 !.cl = m.totalBytes]]

(* ---- ChunkStore.getStream, lines 141-163: one pull of the stream ---- *)
\* k: the reading call, with the stream's index and the bytes enqueued so
\* far; t: the chunks stored for the URL.
pull_skip(k, t) ==
  IF k.idx >= k.n THEN [k EXCEPT !.pc = "closed"]
  ELSE IF hasChunk(t, k.idx)
  THEN [k EXCEPT !.idx = k.idx + 1, !.bytes = k.bytes \o t[k.idx]]
  ELSE [k EXCEPT !.idx = k.idx + 1]

pull(k, t) ==
  IF k.idx >= k.n THEN [k EXCEPT !.pc = "closed"]
  ELSE IF hasChunk(t, k.idx)
  THEN [k EXCEPT !.idx = k.idx + 1, !.bytes = k.bytes \o t[k.idx]]
  ELSE [k EXCEPT !.pc = "failed", !.error = "missing chunk"]

(* ---- DownloadManager.finalizeCache, line 249: cache.put reads the stream ---- *)
Stream(c) ==
  LET k == pull(call[c], chunks[call[c].url])
      u == k.url
  IN /\ call[c].pc = "stream"
     /\ UNCHANGED <<server, meta, chunks, quotaHandler, jobs, queue,
                    activeCount, job, run, honoured>>
     /\ IF k.pc = "closed"
        THEN /\ cache' = [cache EXCEPT ![u] =
                            [exists |-> TRUE, bytes |-> k.bytes,
                             contentLength |-> k.cl]]
             /\ call' = [call EXCEPT ![c].pc = "finclear"]
        ELSE /\ UNCHANGED cache
             /\ call' = [call EXCEPT ![c] = k]

(* ---- DownloadManager.finalizeCache, lines 251-254: store.clear ---- *)
FinalClear(c) ==
  /\ call[c].pc = "finclear"
  /\ clear(call[c].url)
  /\ call' = [call EXCEPT ![c].pc = "resolved"]
  /\ UNCHANGED <<server, cache, quotaHandler, jobs, queue, activeCount, job,
                 run, honoured>>

(* ---- DownloadJob.pause, lines 76-80 ---- *)
Pause(j) ==
  /\ job[j].status = "running"
  /\ job' = [job EXCEPT ![j].status = "paused", ![j].ctlAborted = TRUE]
  /\ run' = [run EXCEPT ![j] =
               [s \in Slots |-> IF run[j][s].cur
                                THEN [run[j][s] EXCEPT !.aborted = TRUE]
                                ELSE run[j][s]]]
  /\ UNCHANGED <<server, meta, chunks, cache, quotaHandler, jobs, queue,
                 activeCount, call, honoured>>

(* ---- DownloadJob.start called on a paused job, lines 48-55 ---- *)
\* The new AbortController replaces the aborted one; executions still in
\* flight keep the signal they passed to fetch.
Restart(j) ==
  /\ job[j].status = "paused"
  /\ job[j].restarts < MaxRestarts
  /\ FreeSlots(j) # {}
  /\ job' = [job EXCEPT ![j] = [StartedJob(job[j]) EXCEPT !.restarts = @ + 1]]
  /\ run' = [run EXCEPT ![j] =
               [s \in Slots |-> IF s = FreeSlot(j) THEN NewRun
                                ELSE [run[j][s] EXCEPT !.cur = FALSE]]]
  /\ UNCHANGED <<server, meta, chunks, cache, quotaHandler, jobs, queue,
                 activeCount, call, honoured>>

(* ---- DownloadJob.start reduced to its outcome ---- *)
Execute(j) ==
  /\ run[j][1].pc = "getMeta"
  /\ \E outcome \in {"completed", "error"} :
       Finish(j, 1, job[j], outcome,
              IF outcome = "error" THEN "network" ELSE "none")
  /\ UNCHANGED <<server, meta, chunks, cache, quotaHandler, honoured>>

(* ---- DownloadManager.checkCacheIntegrity, lines 257-277 ---- *)
\* The digest of the stored bytes, as the test's caller computes the
\* checksum it expects: a hash of the bytes into 0..(HashRange - 1).
RECURSIVE digest(_)
digest(b) == IF b = <<>> THEN 0
             ELSE (digest(Take(b, Len(b) - 1)) * 3 + b[Len(b)]) % HashRange

\* The result for the cache entry e; the method has one parameter, the URL,
\* and an expected checksum passed by a caller is not looked at.
checkCacheIntegrity(e, expected) ==
  IF ~e.exists THEN "missing"
  ELSE IF Len(e.bytes) # e.contentLength THEN "size mismatch"
  ELSE "ok"

CheckCacheIntegrity(c, u, expected) ==
  /\ call[c].pc = "idle"
  /\ call' = [call EXCEPT ![c] =
                [NoCall EXCEPT !.pc = "checked", !.url = u,
                               !.expected = expected,
                               !.error = checkCacheIntegrity(cache[u], expected)]]
  /\ UNCHANGED <<server, meta, chunks, cache, quotaHandler, jobs, queue,
                 activeCount, job, run, honoured>>

(* ---- the store cannot be opened: dbPromise of the ChunkStore rejects ---- *)
\* _execute awaits store.getMetadata (line 84), which awaits the rejected
\* dbPromise (ChunkStore lines 107-110): _execute throws and start's catch
\* (lines 64-73) makes the job an error.
GetMetaUnavailable(j, s) ==
  /\ run[j][s].pc = "getMeta"
  /\ Finish(j, s, job[j], "error", "storage unavailable")
  /\ UNCHANGED <<server, meta, chunks, cache, quotaHandler, honoured>>

(* ---- the ChunkStore used directly: appendChunk, clear, getStream ---- *)
\* The chunks a direct user appends: one of one byte and one of two.
StoreChunks == {<<1>>, <<2, 3>>}

\* A user may call the store when it is not in the middle of a stream.
Ready(c) == call[c].pc \in {"idle", "appended", "cleared", "closed", "failed"}

\* appendChunk(url, chunk, index, totalBytes, etag) settles: the transaction
\* commits, or it aborts on the quota and the call rejects.
StoreAppend(c, u, chunk, index, totalBytes, etag) ==
  /\ Ready(c)
  /\ meta[u].downloadedBytes + Len(chunk) <= MaxStored
  /\ \E o \in {"stored", "quota"} :
       /\ IF o = "stored"
          THEN /\ meta' = [meta EXCEPT ![u] =
                             appendChunkMeta(meta[u], chunk, index, totalBytes,
                                             etag)]
               /\ chunks' = [chunks EXCEPT ![u] =
                               appendChunkData(chunks[u], chunk, index)]
          ELSE UNCHANGED <<meta, chunks>>
       /\ call' = [call EXCEPT ![c] =
                     [NoCall EXCEPT !.pc = "appended", !.url = u,
                                    !.etag = etag,
                                    !.error = IF o = "stored" THEN "none"
                                              ELSE "quota"]]
  /\ UNCHANGED <<server, cache, quotaHandler, jobs, queue, activeCount, job,
                 run, honoured>>

\* clear(url) settles.
StoreClear(c, u) ==
  /\ Ready(c)
  /\ clear(u)
  /\ call' = [call EXCEPT ![c] = [NoCall EXCEPT !.pc = "cleared", !.url = u]]
  /\ UNCHANGED <<server, cache, quotaHandler, jobs, queue, activeCount, job,
                 run, honoured>>

\* getStream(url, expectedChunks) returns the stream and a reader is taken.
StoreGetStream(c, u, expectedChunks) ==
  /\ Ready(c)
  /\ call' = [call EXCEPT ![c] = [NoCall EXCEPT !.pc = "stream", !.url = u,
                                                !.n = expectedChunks]]
  /\ UNCHANGED <<server, meta, chunks, cache, quotaHandler, jobs, queue,
                 activeCount, job, run, honoured>>

\* The reader reads: one pull of the stream.
StorePull(c) ==
  /\ call[c].pc = "stream"
  /\ call' = [call EXCEPT ![c] = pull(call[c], chunks[call[c].url])]
  /\ UNCHANGED <<server, meta, chunks, cache, quotaHandler, jobs, queue,
                 activeCount, job, run, honoured>>

(* ---- DownloadManager.deleteFromCache, lines 279-288 ---- *)
\* cache.delete settles. The calls are numbered in the order they are made;
\* the URL is one the scheduler tracks a job for. Nothing in the method
\* refers to the scheduler's jobs, queue or active count, or to the job.
DeleteFromCache(c, u) ==
  /\ call[c].pc = "idle"
  /\ \A d \in DOMAIN call : d < c => call[d].pc # "idle"
  /\ jobs[u] # 0
  /\ cache' = [cache EXCEPT ![u] = NoEntry]
  /\ call' = [call EXCEPT ![c] =
                [NoCall EXCEPT !.pc = "delclear", !.url = u, !.job = jobs[u],
                               !.was = job[jobs[u]].status]]
  /\ UNCHANGED <<server, meta, chunks, quotaHandler, jobs, queue, activeCount,
                 job, run, honoured>>

\* store.clear settles and deleteFromCache returns.
DeleteClear(c) ==
  /\ call[c].pc = "delclear"
  /\ clear(call[c].url)
  /\ call' = [call EXCEPT ![c].pc = "deleted"]
  /\ UNCHANGED <<server, cache, quotaHandler, jobs, queue, activeCount, job,
                 run, honoured>>

(* ---- the resource changes on the server ---- *)
\* The next version is published: a new body under a new Etag.
Republish ==
  /\ server.etag < NumVersions
  /\ \E L \in 1..MaxBody :
       server' = [body |-> VersionBytes(L, server.etag + 1),
                  etag |-> server.etag + 1]
  /\ UNCHANGED <<meta, chunks, cache, quotaHandler, jobs, queue, activeCount,
                 job, run, call, honoured>>

(* ---- initial states ---- *)
InitWith(lengths, urls, callers, handlers) ==
  /\ server \in {[body |-> Bytes(L), etag |-> 1] : L \in lengths}
  /\ meta = [u \in urls |-> NoMeta]
  /\ chunks = [u \in urls |-> NoChunks]
  /\ cache = [u \in urls |-> NoEntry]
  /\ quotaHandler \in handlers
  /\ jobs = [u \in urls |-> 0]
  /\ queue = <<>>
  /\ activeCount = 0
  /\ job = [j \in callers |-> NoJob]
  /\ run = [j \in callers |-> [s \in Slots |-> OffRun]]
  /\ call = [c \in callers |-> NoCall]
  /\ honoured = TRUE

Init == InitWith(1..MaxBody, {1}, 1..NumCallers, BOOLEAN)
InitPause == InitWith(1..MaxBody, {1}, {1}, {FALSE})
InitConc == InitWith({MaxBody}, {1}, 1..ConcCallers, {FALSE})
InitEtag == InitWith(1..MaxBody, {1}, 1..NumCallers, {FALSE})
InitStore == InitWith({MaxBody}, {1}, 1..StoreClients, {FALSE})
\* Any entry the cache may hold: none, or bytes of either version under any
\* Content-Length.
InitIntegrity ==
  /\ server = [body |-> Bytes(MaxBody), etag |-> 1]
  /\ meta = [u \in {1} |-> NoMeta]
  /\ chunks = [u \in {1} |-> NoChunks]
  /\ cache \in [{1} -> {NoEntry} \cup
                 {[exists |-> TRUE, bytes |-> VersionBytes(L, v),
                   contentLength |-> n] :
                    L \in 0..MaxBody, v \in 1..NumVersions, n \in 0..MaxBody}]
  /\ quotaHandler = FALSE
  /\ jobs = [u \in {1} |-> 0]
  /\ queue = <<>>
  /\ activeCount = 0
  /\ job = [j \in 1..NumCallers |-> NoJob]
  /\ run = [j \in 1..NumCallers |-> [s \in Slots |-> OffRun]]
  /\ call = [c \in 1..NumCallers |-> NoCall]
  /\ honoured = TRUE
InitRetry == InitWith(1..MaxBody, {1}, 1..RetryCallers, {FALSE})
InitFallback == InitWith(1..MaxBody, {1}, {1}, {TRUE})
InitSched == InitWith({MaxBody}, 1..NumUrls, 1..SchedCallers, {FALSE})

(* ---- next-state relations ---- *)
Next ==
  \/ \E c \in DOMAIN call, u \in DOMAIN jobs : CacheMatch(c, u)
  \/ \E c \in DOMAIN call : Download(c)
  \/ \E j \in DOMAIN job, s \in Slots : GetMeta(j, s)
  \/ \E j \in DOMAIN job, s \in Slots : Fetch("any", j, s)
  \/ \E j \in DOMAIN job, s \in Slots : Clear416(j, s)
  \/ \E j \in DOMAIN job, s \in Slots : Clear200(j, s)
  \/ \E j \in DOMAIN job, s \in Slots : Read("any", j, s)
  \/ \E j \in DOMAIN job, s \in Slots : AppendChunk("any", j, s)
  \/ \E j \in DOMAIN job, s \in Slots : Quota(j, s)
  \/ \E j \in DOMAIN job, s \in Slots : Recover(j, s)
  \/ \E c \in DOMAIN call : Finalize(c)
  \/ \E c \in DOMAIN call : Stream(c)
  \/ \E c \in DOMAIN call : FinalClear(c)

NextLength ==
  \/ \E c \in DOMAIN call, u \in DOMAIN jobs : CacheMatch(c, u)
  \/ \E c \in DOMAIN call : Download(c)
  \/ \E j \in DOMAIN job, s \in Slots : GetMeta(j, s)
  \/ \E j \in DOMAIN job, s \in Slots : Fetch("any", j, s)
  \/ \E j \in DOMAIN job, s \in Slots : FetchMiscounted(j, s)
  \/ \E j \in DOMAIN job, s \in Slots : Clear416(j, s)
  \/ \E j \in DOMAIN job, s \in Slots : Clear200(j, s)
  \/ \E j \in DOMAIN job, s \in Slots : Read("any", j, s)
  \/ \E j \in DOMAIN job, s \in Slots : AppendChunk("any", j, s)
  \/ \E j \in DOMAIN job, s \in Slots : Quota(j, s)
  \/ \E j \in DOMAIN job, s \in Slots : Recover(j, s)
  \/ \E c \in DOMAIN call : Finalize(c)
  \/ \E c \in DOMAIN call : Stream(c)
  \/ \E c \in DOMAIN call : FinalClear(c)

NextPause ==
  \/ \E c \in DOMAIN call, u \in DOMAIN jobs : CacheMatch(c, u)
  \/ \E c \in DOMAIN call : Download(c)
  \/ \E j \in DOMAIN job, s \in Slots : GetMeta(j, s)
  \/ \E j \in DOMAIN job, s \in Slots : Fetch("honest", j, s)
  \/ \E j \in DOMAIN job, s \in Slots : Read("honest", j, s)
  \/ \E j \in DOMAIN job, s \in Slots : AppendChunk("honest", j, s)
  \/ \E j \in DOMAIN job : Pause(j)
  \/ \E j \in DOMAIN job : Restart(j)
  \/ \E c \in DOMAIN call : Finalize(c)
  \/ \E c \in DOMAIN call : Stream(c)
  \/ \E c \in DOMAIN call : FinalClear(c)

NextConc ==
  \/ \E c \in DOMAIN call, u \in DOMAIN jobs : CacheMatch(c, u)
  \/ \E c \in DOMAIN call : Download(c)
  \/ \E j \in DOMAIN job, s \in Slots : GetMeta(j, s)
  \/ \E j \in DOMAIN job, s \in Slots : Fetch("any", j, s)
  \/ \E j \in DOMAIN job, s \in Slots : Clear416(j, s)
  \/ \E j \in DOMAIN job, s \in Slots : Clear200(j, s)
  \/ \E j \in DOMAIN job, s \in Slots : Read("any", j, s)
  \/ \E j \in DOMAIN job, s \in Slots : AppendChunk("any", j, s)
  \/ \E c \in DOMAIN call : Finalize(c)
  \/ \E c \in DOMAIN call : Stream(c)
  \/ \E c \in DOMAIN call : FinalClear(c)

NextEtag ==
  \/ \E c \in DOMAIN call, u \in DOMAIN jobs : CacheMatch(c, u)
  \/ \E c \in DOMAIN call : Download(c)
  \/ \E j \in DOMAIN job, s \in Slots : GetMeta(j, s)
  \/ \E j \in DOMAIN job, s \in Slots : Fetch("any", j, s)
  \/ \E j \in DOMAIN job, s \in Slots : Clear416(j, s)
  \/ \E j \in DOMAIN job, s \in Slots : Clear200(j, s)
  \/ \E j \in DOMAIN job, s \in Slots : Read("any", j, s)
  \/ \E j \in DOMAIN job, s \in Slots : AppendChunk("any", j, s)
  \/ \E c \in DOMAIN call : Finalize(c)
  \/ \E c \in DOMAIN call : Stream(c)
  \/ \E c \in DOMAIN call : FinalClear(c)
  \/ Republish

NextStore ==
  \/ \E c \in DOMAIN call, u \in DOMAIN jobs, chunk \in StoreChunks,
        index \in 0..MaxIndex, etag \in 0..NumVersions :
          StoreAppend(c, u, chunk, index, MaxBody, etag)
  \/ \E c \in DOMAIN call, u \in DOMAIN jobs : StoreClear(c, u)
  \/ \E c \in DOMAIN call, u \in DOMAIN jobs, n \in 0..(MaxIndex + 1) :
          StoreGetStream(c, u, n)
  \/ \E c \in DOMAIN call : StorePull(c)

NextUnavail ==
  \/ \E c \in DOMAIN call, u \in DOMAIN jobs : CacheMatch(c, u)
  \/ \E c \in DOMAIN call : Download(c)
  \/ \E j \in DOMAIN job, s \in Slots : GetMetaUnavailable(j, s)

NextIntegrity ==
  \E c \in DOMAIN call, u \in DOMAIN jobs,
     expected \in {NoChecksum} \cup 0..(HashRange - 1) :
       CheckCacheIntegrity(c, u, expected)

\* Call 1 is a downloadFile, call 2 a deleteFromCache of the URL while its
\* job is known to the scheduler; the server honours Range.
NextDelete ==
  \/ \E u \in DOMAIN jobs : CacheMatch(1, u)
  \/ Download(1)
  \/ \E j \in DOMAIN job, s \in Slots : GetMeta(j, s)
  \/ \E j \in DOMAIN job, s \in Slots : Fetch("honest", j, s)
  \/ \E j \in DOMAIN job, s \in Slots : Read("honest", j, s)
  \/ \E j \in DOMAIN job, s \in Slots : AppendChunk("honest", j, s)
  \/ \E c \in DOMAIN call : Finalize(c)
  \/ \E c \in DOMAIN call : Stream(c)
  \/ \E c \in DOMAIN call : FinalClear(c)
  \/ \E u \in DOMAIN jobs : DeleteFromCache(2, u)
  \/ DeleteClear(2)

\* The caller of a downloadFile that was rejected calls it again: the call
\* starts over, and the scheduler will build a new job for it in download.
Again(c) ==
  /\ call[c].pc = "failed"
  /\ \A d \in DOMAIN call : call[d].pc # "idle"
  /\ call' = [call EXCEPT ![c] = NoCall]
  /\ UNCHANGED <<server, meta, chunks, cache, quotaHandler, jobs, queue,
                 activeCount, job, run, honoured>>

\* One downloadFile after the other: call c + 1 is made once call c has
\* settled, and the last caller tries again for as long as it fails. The jobs of the first Unreliable calls meet an arbitrary server,
\* a miscounted Content-Length included; the later ones a server that serves
\* the resource correctly.
NextRetry ==
  \/ \E c \in DOMAIN call, u \in DOMAIN jobs :
       /\ c > 1 => call[c - 1].pc \in {"failed", "resolved"}
       /\ CacheMatch(c, u)
  \/ Again(RetryCallers)
  \/ \E c \in DOMAIN call : Download(c)
  \/ \E j \in DOMAIN job, s \in Slots : GetMeta(j, s)
  \/ \E j \in 1..Unreliable, s \in Slots : Fetch("any", j, s)
  \/ \E j \in 1..Unreliable, s \in Slots : FetchMiscounted(j, s)
  \/ \E j \in 1..Unreliable, s \in Slots : Read("any", j, s)
  \/ \E j \in 1..Unreliable, s \in Slots : AppendChunk("any", j, s)
  \/ \E j \in (Unreliable + 1)..RetryCallers, s \in Slots :
       Fetch("honest", j, s)
  \/ \E j \in (Unreliable + 1)..RetryCallers, s \in Slots :
       Read("honest", j, s)
  \/ \E j \in (Unreliable + 1)..RetryCallers, s \in Slots :
       AppendChunk("honest", j, s)
  \/ \E j \in DOMAIN job, s \in Slots : Clear416(j, s)
  \/ \E j \in DOMAIN job, s \in Slots : Clear200(j, s)
  \/ \E c \in DOMAIN call : Finalize(c)
  \/ \E c \in DOMAIN call : Stream(c)
  \/ \E c \in DOMAIN call : FinalClear(c)

\* As NextPause, with a store that may refuse a chunk for lack of quota and
\* a quota handler that is asked for the memory fallback.
NextFallback ==
  \/ \E c \in DOMAIN call, u \in DOMAIN jobs : CacheMatch(c, u)
  \/ \E c \in DOMAIN call : Download(c)
  \/ \E j \in DOMAIN job, s \in Slots : GetMeta(j, s)
  \/ \E j \in DOMAIN job, s \in Slots : Fetch("honest", j, s)
  \/ \E j \in DOMAIN job, s \in Slots : Read("honest", j, s)
  \/ \E j \in DOMAIN job, s \in Slots : AppendChunk("any", j, s)
  \/ \E j \in DOMAIN job, s \in Slots : Quota(j, s)
  \/ \E j \in DOMAIN job, s \in Slots : Recover(j, s)
  \/ \E j \in DOMAIN job : Pause(j)
  \/ \E j \in DOMAIN job : Restart(j)
  \/ \E c \in DOMAIN call : Finalize(c)
  \/ \E c \in DOMAIN call : Stream(c)
  \/ \E c \in DOMAIN call : FinalClear(c)

NextCancel ==
  \/ \E c \in DOMAIN call, u \in DOMAIN jobs : CacheMatch(c, u)
  \/ \E c \in DOMAIN call : Download(c)
  \/ \E j \in DOMAIN job : Execute(j)
  \/ \E c \in DOMAIN call, u \in DOMAIN jobs : DeleteFromCache(c, u)
  \/ \E c \in DOMAIN call : DeleteClear(c)

NextSched ==
  \/ \E c \in DOMAIN call, u \in DOMAIN jobs : CacheMatch(c, u)
  \/ \E c \in DOMAIN call : Download(c)
  \/ \E j \in DOMAIN job : Execute(j)

Spec == Init /\ [][Next]_vars
PauseSpec == InitPause /\ [][NextPause]_vars
ConcSpec == InitConc /\ [][NextConc]_vars
SchedSpec == InitSched /\ [][NextSched]_vars
EtagSpec == InitEtag /\ [][NextEtag]_vars
CancelSpec == InitSched /\ [][NextCancel]_vars
StoreSpec == InitStore /\ [][NextStore]_vars
UnavailSpec == InitSched /\ [][NextUnavail]_vars
IntegritySpec == InitIntegrity /\ [][NextIntegrity]_vars
LengthSpec == Init /\ [][NextLength]_vars
DeleteSpec == InitEtag /\ [][NextDelete]_vars
\* SchedSpec where every running job ends and every call that has missed the
\* cache goes on to the scheduler.
SchedFairSpec ==
  /\ InitSched
  /\ [][NextSched]_vars
  /\ \A j \in 1..SchedCallers : WF_vars(Execute(j))
  /\ \A c \in 1..SchedCallers : WF_vars(Download(c))

FallbackSpec == InitFallback /\ [][NextFallback]_vars
\* Every step of a call or of a job that can be taken is taken in the end:
\* the event loop runs each settled promise's continuation.
RetryFairSpec == InitRetry /\ [][NextRetry]_vars /\ WF_vars(NextRetry)

(* ======================================================================= *)
(* Properties                                                              *)
(* ======================================================================= *)
Callers == DOMAIN call
Jobs == DOMAIN job
Urls == DOMAIN jobs
Running == {j \in Jobs : job[j].status = "running"}
Tracked(u) == {j \in Jobs : job[j].url = u
                            /\ job[j].status \in {"pending", "running"}}

\* C1 (round trip), as the specification states it: whenever a downloadFile
\* call has resolved and every response so far honoured the Range header,
\* the cache entry of the URL holds exactly the bytes the server serves.
C1_RoundTrip ==
  \A c \in Callers :
    call[c].pc = "resolved" /\ honoured
      => /\ cache[call[c].url].exists
         /\ cache[call[c].url].bytes = server.body

\* C2 (server ignores Range), as the specification states it: a job that
\* resumed with startByte > 0, was answered 200 and completed lets its
\* caller's finalization pass the completeness check.
C2_IgnoredRangeCompletes ==
  \A c \in Callers :
    (/\ call[c].job = c
     /\ job[c].via = "reset200"
     /\ job[c].status = "completed")
      => ~(call[c].pc = "failed" /\ call[c].error = "integrity")

\* C3 (quota fallback), as the specification states it: once the quota
\* handler has allowed the memory fallback, the job does not fail with the
\* quota error.
C3_QuotaFallbackCompletes ==
  \A j \in Jobs :
    job[j].quotaAllowed => ~(job[j].status = "error" /\ job[j].error = "quota")

\* C4 (deduplicated acquires), as the specification states it: no caller is
\* still waiting on a job that has finished.
C4_AllSettled ==
  \A c \in Callers :
    call[c].pc = "waiting"
      => job[call[c].job].status \in {"pending", "running"}

\* C5 (P4): at most MAX_CONCURRENT jobs are running.
C5_MaxConcurrent == Cardinality(Running) <= MAX_CONCURRENT

\* The limit is reached with a job waiting in the queue, after one job has
\* completed and one has failed.
C5_Witness ==
  /\ Cardinality(Running) = MAX_CONCURRENT
  /\ queue # <<>>
  /\ \E j \in Jobs : job[j].status \in {"completed", "error"}

\* C6 (P5): for every URL at most one job is pending or running, and it is
\* the one the scheduler tracks; a download call made while a job for the URL
\* is tracked waits on that job, creates no job and enqueues nothing.
C6_OneJobPerUrl ==
  /\ [](\A u \in Urls : /\ Cardinality(Tracked(u)) <= 1
                        /\ Tracked(u) \subseteq {jobs[u]})
  /\ [][\A c \in Callers :
          (/\ call[c].pc = "missed"
           /\ call'[c].pc = "waiting"
           /\ jobs[call[c].url] # 0)
            => /\ call'[c].job = jobs[call[c].url]
               /\ queue' = queue
               /\ jobs' = jobs
               /\ \A j \in Jobs : job'[j].status = job[j].status]_vars

\* A call waits on the job another call created.
C6_Witness ==
  \E c \in Callers :
    /\ call[c].pc = "waiting" /\ call[c].job # c
    /\ job[call[c].job].status = "running"

\* C7 (resume), as the specification states it: when the call of a job that
\* resumed (Range: bytes=d-, answered 206) has resolved, the cache holds the
\* chunks stored before followed by the body of the response.
C7_ResumedBytesCached ==
  \A c \in Callers :
    (/\ call[c].pc = "resolved" /\ call[c].job = c
     /\ job[c].via = "resumed206")
      => cache[call[c].url].bytes = job[c].prev \o job[c].respBody

\* The part of C7 the job keeps on its own: an execution that finds metadata
\* with downloadedBytes = d > 0 and chunkCount = c sends Range: bytes=d- and
\* continues at chunk index c, one that finds none sends no Range header and
\* starts at index 0; on 206 its total is d + Content-Length; an append writes
\* only the chunk at the execution's index, which is never below c, and leaves
\* every other stored chunk as it was.
ResumeSteps ==
  /\ [](\A j \in Jobs : \A s \in Slots :
          (run[j][s].pc \in {"read", "append"} /\ job[j].via = "resumed206")
            => /\ run[j][s].totalSize = job[j].from + job[j].seen.cl
               /\ run[j][s].chunkIndex >= run[j][s].base)
  /\ [][\A j \in Jobs : \A s \in Slots :
          LET r == run[j][s]
              m == meta[job[j].url]
              t == chunks[job[j].url]
          IN /\ (r.pc = "getMeta" /\ run'[j][s].pc = "fetch")
                  => IF m.exists /\ m.downloadedBytes > 0
                     THEN /\ run'[j][s].range = m.downloadedBytes
                          /\ run'[j][s].chunkIndex = m.chunkCount
                     ELSE /\ run'[j][s].range = 0
                          /\ run'[j][s].chunkIndex = 0
             /\ (r.pc = "append" /\ run'[j][s] # r /\ chunks' # chunks)
                  => /\ DOMAIN chunks'[job[j].url] = DOMAIN t \cup {r.chunkIndex}
                     /\ job[j].via = "resumed206" => r.chunkIndex >= r.base
                     /\ \A i \in DOMAIN t \ {r.chunkIndex} :
                          chunks'[job[j].url][i] = t[i]]_vars

\* C8 (P6), as the specification states it: once the call of a job that was
\* paused and restarted has resolved, the cache holds the bytes a single
\* uninterrupted run produces, the body the server serves.
C8_PauseRestartSameBytes ==
  \A c \in Callers :
    (call[c].pc = "resolved" /\ call[c].job = c /\ job[c].restarts > 0)
      => cache[call[c].url].bytes = server.body

\* C9 (416 restart scenario), as the specification states it: a job whose
\* store claimed d bytes and that was answered 416 with Content-Range */N,
\* N < d, restarts (clears the store and requests again).
C9_RestartWhenServerSmaller ==
  \A j \in Jobs :
    (/\ job[j].seen.status = 416
     /\ job[j].seen.cr # -1
     /\ job[j].seen.cr < job[j].from)
      => job[j].via = "restart416"

\* C10 (416 classification): a 416 with Content-Range */N and startByte >= N
\* ends the execution at once, the job is completed and the store untouched;
\* any other 416 makes the execution clear the store of the URL and request
\* again without a Range header.
C10_Classify416 ==
  /\ [](\A j \in Jobs : \A s \in Slots :
          /\ (run[j][s].after416 /\ run[j][s].pc = "fetch")
               => run[j][s].range = 0)
  /\ [][\A j \in Jobs : \A s \in Slots :
          /\ (/\ run[j][s].pc = "fetch" /\ run'[j][s].pc # "fetch"
              /\ job'[j].seen.status = 416)
               => IF job'[j].seen.cr # -1 /\ job'[j].from >= job'[j].seen.cr
                  THEN /\ run'[j][s].pc = "off"
                       /\ job'[j].status = "completed"
                       /\ meta' = meta /\ chunks' = chunks
                  ELSE run'[j][s].pc = "clear416"
          /\ (run[j][s].pc = "clear416" /\ run'[j][s].pc # "clear416")
               => /\ meta'[job[j].url] = NoMeta
                  /\ chunks'[job[j].url] = NoChunks
                  /\ run'[j][s].pc = "getMeta"]_vars

\* A job that resumed at d > 0 was answered 416 */d, the boundary of the
\* classification, and completed.
C10_Witness ==
  \E j \in Jobs :
    /\ job[j].via = "done416" /\ job[j].status = "completed"
    /\ job[j].from > 0 /\ job[j].from = job[j].seen.cr

\* C11 (bounded in-job retries), as the specification states it: an execution
\* that has already restarted from zero after a 416 does not restart again,
\* whatever the server answers to the retried request; it issues at most two
\* requests.
C11_OneRestart ==
  [][\A j \in Jobs : \A s \in Slots :
       (run[j][s].after416 /\ run[j][s].pc = "fetch")
         => run'[j][s].pc # "clear416"]_vars

\* C12 (no mixing of resource versions), as the specification states it: the
\* bytes of a cache entry all belong to one version of the resource.
C12_OneVersionCached ==
  \A u \in Urls : \A i, k \in DOMAIN cache[u].bytes :
    Version(cache[u].bytes[i]) = Version(cache[u].bytes[k])

\* The part of C12 the job keeps on its own: when a 2xx response carries an
\* Etag other than the one in the metadata the execution read, the step
\* leaves the store of the URL empty, the job in status error and the
\* execution ended, so that no byte of the response is stored.
ValidatorSteps ==
  [][\A j \in Jobs : \A s \in Slots :
       (/\ run[j][s].pc = "fetch" /\ run'[j][s].pc # "fetch"
        /\ job'[j].seen.status \in {200, 206}
        /\ run[j][s].metaExists
        /\ run[j][s].metaEtag # NoEtag
        /\ run[j][s].metaEtag # job'[j].seen.etag)
         => /\ meta'[job[j].url] = NoMeta
            /\ chunks'[job[j].url] = NoChunks
            /\ job'[j].status = "error" /\ job'[j].error = "etag"
            /\ run'[j][s].pc = "off"]_vars

\* The sizes of the chunks of t stored under the indices 0 .. n-1, summed.
RECURSIVE SumSizes(_, _)
SumSizes(t, n) ==
  IF n <= 0 THEN 0
  ELSE SumSizes(t, n - 1) + (IF hasChunk(t, n - 1) THEN Len(t[n - 1]) ELSE 0)

\* C13 (P1): for every URL, between any two ChunkStore transactions,
\* downloadedBytes of the metadata equals the sum of the sizes of the stored
\* chunks with indices 0 .. chunkCount-1.
C13_P1 ==
  \A u \in Urls :
    meta[u].downloadedBytes = SumSizes(chunks[u], meta[u].chunkCount)

\* C14 (P3), as the specification states it: in the step in which a
\* downloadFile call resolves, the ChunkStore is left without metadata and
\* without chunks for the URL of the call.
C14_P3 ==
  [][\A c \in Callers :
       (call[c].pc # "resolved" /\ call'[c].pc = "resolved")
         => /\ meta'[call'[c].url] = NoMeta
            /\ chunks'[call'[c].url] = NoChunks]_vars

\* C15 (P2), as the specification states it: a cache entry holds as many
\* bytes as its Content-Length header says, which in store mode is the
\* totalBytes of the metadata finalization read, and in the step in which
\* finalization puts the entry from the store that number is the totalBytes
\* of the metadata of the URL.
C15_P2 ==
  /\ [](\A u \in Urls :
          cache[u].exists => Len(cache[u].bytes) = cache[u].contentLength)
  /\ [][\A c \in Callers :
          (call[c].pc = "stream" /\ call'[c].pc = "finclear")
            => Len(cache'[call[c].url].bytes) = meta[call[c].url].totalBytes]_vars

\* C16 (finalization completeness check): when finalization in store mode
\* finds no metadata for the URL, or metadata whose downloadedBytes differs
\* from totalBytes, the call fails in that step with the corresponding error
\* and the cache is not written; a call that failed so stays failed; and a
\* finalization in store mode that does go on to stream found metadata with
\* downloadedBytes = totalBytes.
C16_FinalizeCheck ==
  [][\A c \in Callers :
       LET m == meta[call[c].url]
       IN /\ (/\ call[c].pc = "finalize" /\ call'[c].pc # "finalize"
              /\ ~call[c].blob.has
              /\ (~m.exists \/ m.downloadedBytes # m.totalBytes))
               => /\ call'[c].pc = "failed"
                  /\ call'[c].error = (IF m.exists THEN "integrity"
                                       ELSE "metadata")
                  /\ cache' = cache
          /\ (call[c].pc = "finalize" /\ call'[c].pc = "stream")
               => m.exists /\ m.downloadedBytes = m.totalBytes
          /\ (call[c].pc = "failed"
              /\ call[c].error \in {"integrity", "metadata"})
               => call'[c] = call[c]]_vars

\* One call has failed on metadata with downloadedBytes # totalBytes and one
\* on missing metadata, and nothing was written to the cache.
C16_Witness ==
  /\ \E c \in Callers : call[c].pc = "failed" /\ call[c].error = "integrity"
  /\ \E c \in Callers : call[c].pc = "failed" /\ call[c].error = "metadata"
  /\ \A u \in Urls : ~cache[u].exists

\* C17 (quota refusal), as the specification states it: in the step in which
\* appendChunk has failed on the quota and no handler is set, or the handler
\* has answered false, the job is left in status error with the quota error
\* and not in memory mode, the cache is not written, and every call waiting
\* on the job fails with that error.
C17_QuotaRefusal ==
  [][\A j \in Jobs : \A s \in Slots :
       (run[j][s].pc \in {"append", "quota"} /\ job'[j].status = "error")
         => /\ job'[j].error = "quota"
            /\ ~job'[j].isMemoryMode /\ job'[j].memoryChunks = <<>>
            /\ cache' = cache
            /\ \A c \in Callers :
                 (call[c].pc = "waiting" /\ call[c].job = j)
                   => call'[c].pc = "failed" /\ call'[c].error = "quota"]_vars

\* The part of C17 that does not depend on how many calls wait on the job:
\* the same step, with the call whose callbacks the job holds.
QuotaRefusalSteps ==
  [][\A j \in Jobs : \A s \in Slots :
       (run[j][s].pc \in {"append", "quota"} /\ job'[j].status = "error")
         => /\ job'[j].error = "quota"
            /\ ~job'[j].isMemoryMode /\ job'[j].memoryChunks = <<>>
            /\ cache' = cache
            /\ call'[job[j].cb].pc = "failed"
            /\ call'[job[j].cb].error = "quota"]_vars

\* C18 (cached short-circuit), as the specification states it: a downloadFile
\* call that finds the URL in the cache with a Content-Length above zero
\* resolves in that step, having reported completion to its progress
\* callback, and no job is created, queued or started and no request made.
C18_CachedShortCircuit ==
  [][\A c \in Callers :
       (/\ call[c].pc = "idle" /\ call'[c].pc # "idle"
        /\ cache[call'[c].url].exists
        /\ cache[call'[c].url].contentLength > 0)
         => /\ call'[c].pc = "resolved"
            /\ call'[c].progress = "complete"
            /\ jobs' = jobs /\ queue' = queue /\ activeCount' = activeCount
            /\ job' = job /\ run' = run]_vars

\* The part of C18 the code keeps: the same step without the progress report.
CachedSteps ==
  [][\A c \in Callers :
       (/\ call[c].pc = "idle" /\ call'[c].pc # "idle"
        /\ cache[call'[c].url].exists
        /\ cache[call'[c].url].contentLength > 0)
         => /\ call'[c].pc = "resolved"
            /\ jobs' = jobs /\ queue' = queue /\ activeCount' = activeCount
            /\ job' = job /\ run' = run]_vars

\* C19 (cancel of a running download), as the specification states it: when
\* deleteFromCache, called for a URL whose job was running, returns, that job
\* is neither running nor tracked by the scheduler any more and no call is
\* left waiting on it.
C19_CancelRunning ==
  [][\A c \in Callers :
       (/\ call[c].pc = "delclear" /\ call'[c].pc = "deleted"
        /\ call[c].was = "running")
         => /\ job'[call[c].job].status \notin {"pending", "running"}
            /\ jobs'[call[c].url] # call[c].job
            /\ \A d \in Callers :
                 ~(call'[d].pc = "waiting" /\ call'[d].job = call[c].job)]_vars

\* C20 (cancel of a queued download), as the specification states it: when
\* deleteFromCache, called for a URL whose job was queued, returns, that job
\* is not in the queue, has not been started and is not tracked any more, and
\* no call is left waiting on it.
C20_CancelQueued ==
  [][\A c \in Callers :
       (/\ call[c].pc = "delclear" /\ call'[c].pc = "deleted"
        /\ call[c].was = "pending")
         => /\ \A i \in DOMAIN queue' : queue'[i] # call[c].job
            /\ job'[call[c].job].status \notin {"pending", "running"}
            /\ jobs'[call[c].url] # call[c].job
            /\ \A d \in Callers :
                 ~(call'[d].pc = "waiting" /\ call'[d].job = call[c].job)]_vars

\* C21 (work-conserving admission): the queue is never non-empty while fewer
\* than MAX_CONCURRENT jobs are active, by the scheduler's count and by the
\* number of running jobs; a job leaves the queue only by being started, and
\* the queue is served first in, first out.
C21_WorkConserving ==
  /\ [](queue # <<>> => /\ activeCount >= MAX_CONCURRENT
                        /\ Cardinality(Running) >= MAX_CONCURRENT)
  /\ [][\A i \in DOMAIN queue :
          (\A k \in DOMAIN queue' : queue'[k] # queue[i])
            => /\ job'[queue[i]].status = "running"
               /\ \A k \in 1..(i - 1) :
                    \A m \in DOMAIN queue' : queue'[m] # queue[k]]_vars

\* Two jobs were queued behind a full active set; one job has finished, the
\* first of the two runs in its place and the other still waits.
C21_Witness ==
  /\ queue = <<5>>
  /\ job[4].status = "running"
  /\ activeCount = MAX_CONCURRENT
  /\ Cardinality({j \in Jobs : job[j].status \in {"completed", "error"}}) = 1

\* C22 (atomic append), as the specification states it: the metadata of a URL
\* covers exactly the stored chunks (the indices 0 .. chunkCount-1 are the
\* stored ones, and without metadata no chunk is stored), in every state.
C22_MetaCoversChunks ==
  \A u \in Urls : DOMAIN chunks[u] = 0..(meta[u].chunkCount - 1)

\* The part of C22 that is appendChunk's own: a settled appendChunk either
\* stores the chunk at its index together with the metadata that counts it,
\* or, when it fails, leaves the chunks and the metadata of the URL as they
\* were.
AppendSteps ==
  [][\A j \in Jobs : \A s \in Slots :
       LET u == job[j].url
           r == run[j][s]
       IN (r.pc = "append" /\ run'[j][s].pc # "append")
            => \/ /\ chunks'[u] = appendChunkData(chunks[u], r.pending,
                                                  r.chunkIndex)
                  /\ meta'[u].exists
                  /\ meta'[u].chunkCount > r.chunkIndex
               \/ /\ chunks'[u] = chunks[u]
                  /\ meta'[u] = meta[u]
                  /\ run'[j][s].pc \in {"quota", "off"}]_vars

\* C23 (appendChunk reports validator disagreement), as the specification
\* states it: an appendChunk called with an Etag other than the one the
\* metadata of the URL carries fails with the mismatch and leaves the chunks
\* and the metadata as they were.
C23_AppendRejectsOtherEtag ==
  [][\A c \in Callers :
       LET u == call'[c].url
       IN (/\ call'[c].pc = "appended" /\ call'[c] # call[c]
           /\ call'[c].error # "quota"
           /\ meta[u].exists /\ meta[u].etag # NoEtag
           /\ call'[c].etag # NoEtag
           /\ call'[c].etag # meta[u].etag)
            => /\ call'[c].error = "validator"
               /\ meta'[u] = meta[u]
               /\ chunks'[u] = chunks[u]]_vars

\* The bytes of the chunks 0..(n - 1) of the table t, in index order.
RECURSIVE Concat(_, _)
Concat(t, n) == IF n = 0 THEN <<>> ELSE Concat(t, n - 1) \o t[n - 1]

\* C24 (getStream emits the stored chunks in order, or fails at the first
\* missing one): every read of a stream of n chunks that stands at index i
\* emits the chunk stored at i and moves to i + 1 when i < n and the chunk is
\* stored, fails with the missing-chunk error and emits nothing when i < n
\* and it is not, and closes and emits nothing when i = n; a closed or failed
\* stream emits nothing further; and while the store is not written in
\* between, a closed stream has emitted exactly chunks 0..(n - 1) and a failed
\* one exactly the chunks before the first missing index.
C24_StreamInOrder ==
  /\ [][\A c \in Callers :
         LET k == call[c]
             t == chunks[k.url]
         IN (k.pc = "stream" /\ call'[c] # k)
              => /\ (k.idx < k.n /\ hasChunk(t, k.idx))
                      => call'[c] = [k EXCEPT !.idx = k.idx + 1,
                                              !.bytes = k.bytes \o t[k.idx]]
                 /\ (k.idx < k.n /\ ~hasChunk(t, k.idx))
                      => call'[c] = [k EXCEPT !.pc = "failed",
                                              !.error = "missing chunk"]
                 /\ k.idx >= k.n
                      => (k.idx = k.n /\ call'[c] = [k EXCEPT !.pc = "closed"])]_vars
  /\ [][\A c \in Callers :
         (call[c].pc \in {"closed", "failed"} /\ call[c].n > 0 /\ call'[c] # call[c])
           => call'[c].pc \notin {"closed", "failed", "stream"}
              \/ call'[c].bytes = <<>>]_vars
  /\ [](StoreClients = 1 =>
          \A c \in Callers :
            LET k == call[c]
                t == chunks[k.url]
            IN /\ (k.pc = "closed" /\ k.url # 0 /\ k.error = "none")
                    => /\ \A i \in 0..(k.n - 1) : hasChunk(t, i)
                       /\ k.bytes = Concat(t, k.n)
               /\ (k.pc = "failed" /\ k.error = "missing chunk")
                    => /\ k.idx < k.n /\ ~hasChunk(t, k.idx)
                       /\ \A i \in 0..(k.idx - 1) : hasChunk(t, i)
                       /\ k.bytes = Concat(t, k.idx))

\* A stream of three chunks that failed at index 2 after emitting chunks 0
\* and 1.
C24_Witness ==
  \E c \in Callers :
    /\ call[c].pc = "failed" /\ call[c].error = "missing chunk"
    /\ call[c].n = MaxIndex + 1 /\ call[c].idx = 2
    /\ call[c].bytes = chunks[call[c].url][0] \o chunks[call[c].url][1]
    /\ chunks[call[c].url][0] # chunks[call[c].url][1]

\* C25 (storage unavailable), as the specification states it: when the
\* persistent store cannot be opened, the job still runs, in memory, so no
\* call of downloadFile is rejected and no job ends in error.
C25_UnavailableStillSucceeds ==
  /\ \A c \in Callers : call[c].pc # "failed"
  /\ \A j \in Jobs : job[j].status # "error"

\* C26 (an HTTP error leaves the store resumable), as the specification
\* states it: in the step in which the fetch is answered with a status
\* outside 200..299 other than 416, the job is left in status error with the
\* error of the status, the chunks and the metadata stored for the URL are
\* unchanged, and every call waiting on the job fails with that error.
C26_HttpErrorResumable ==
  [][\A j \in Jobs : \A s \in Slots :
       (run[j][s].pc = "fetch" /\ job'[j].via = "http"
        /\ run'[j][s].pc = "off")
         => /\ job'[j].status = "error" /\ job'[j].error = "http"
            /\ job'[j].seen.status \notin {0, 200, 206, 416}
            /\ meta' = meta /\ chunks' = chunks
            /\ \A c \in Callers :
                 (call[c].pc = "waiting" /\ call[c].job = j)
                   => call'[c].pc = "failed" /\ call'[c].error = "http"]_vars

\* The part of C26 that does not depend on how many calls wait on the job:
\* the same step, with the call whose callbacks the job holds; and the
\* metadata left behind is what the next execution resumes from.
HttpErrorSteps ==
  [][\A j \in Jobs : \A s \in Slots :
       (run[j][s].pc = "fetch" /\ job'[j].via = "http"
        /\ run'[j][s].pc = "off")
         => /\ job'[j].status = "error" /\ job'[j].error = "http"
            /\ job'[j].seen.status \notin {0, 200, 206, 416}
            /\ meta' = meta /\ chunks' = chunks /\ cache' = cache
            /\ call'[job[j].cb].pc = "failed"
            /\ call'[job[j].cb].error = "http"
            /\ LET m == meta'[job[j].url]
               IN (m.exists /\ m.downloadedBytes > 0)
                    => resumeFrom(m) = [startByte |-> m.downloadedBytes,
                                        chunkIndex |-> m.chunkCount]]_vars

\* A job that had stored bytes already was answered with an HTTP error.
HttpErrorSeen ==
  \E j \in Jobs : /\ job[j].status = "error" /\ job[j].via = "http"
                  /\ job[j].from > 0
                  /\ meta[job[j].url].downloadedBytes = job[j].from

\* C27 (checkCacheIntegrity classifies the cache entry), as the
\* specification states it: the result is missing when the cache has no
\* entry, a size mismatch when the stored bytes are not as many as the stored
\* Content-Length, a checksum mismatch when an expected checksum is given and
\* the digest of the stored bytes differs from it, and ok otherwise.
C27_IntegrityClasses ==
  \A c \in Callers :
    call[c].pc = "checked" =>
      LET e == cache[call[c].url]
      IN call[c].error =
           IF ~e.exists THEN "missing"
           ELSE IF Len(e.bytes) # e.contentLength THEN "size mismatch"
           ELSE IF call[c].expected # NoChecksum
                   /\ digest(e.bytes) # call[c].expected
           THEN "checksum mismatch"
           ELSE "ok"

\* The part of C27 without the checksum: missing, size mismatch, ok.
IntegrityWithoutChecksum ==
  \A c \in Callers :
    (call[c].pc = "checked" /\ call[c].expected = NoChecksum) =>
      LET e == cache[call[c].url]
      IN call[c].error =
           IF ~e.exists THEN "missing"
           ELSE IF Len(e.bytes) # e.contentLength THEN "size mismatch"
           ELSE "ok"

\* The appendChunk calls in flight for the URL u: the executions that await
\* one.
Appending(u) ==
  {e \in Jobs \X Slots : job[e[1]].url = u /\ run[e[1]][e[2]].pc = "append"}

\* C28 (sequential appends), as the specification states it: an execution
\* issues its first appendChunk with the chunk count it resumed from or with
\* 0, issues each further one with the next index and only after the one
\* before has settled, and at most one appendChunk per URL is in flight in
\* any state.
C28_SequentialAppends ==
  /\ [][\A j \in Jobs : \A s \in Slots :
         LET r == run[j][s]
             q == run'[j][s]
         IN /\ (r.pc \in {"fetch", "clear200"} /\ q.pc = "read")
                 => q.chunkIndex \in {r.base, 0}
            /\ (r.pc = "read" /\ q.pc \in {"read", "append"})
                 => q.chunkIndex = r.chunkIndex
            /\ (r.pc = "append" /\ q.pc = "read")
                 => q.chunkIndex = r.chunkIndex + 1
            /\ (r.pc = "append" /\ q.pc = "append") => q.chunkIndex = r.chunkIndex]_vars
  /\ [](\A u \in Urls : Cardinality(Appending(u)) <= 1)

\* The part of C28 that is one execution's own: its indices ascend by one
\* from where it resumed, each issued after the one before has settled.
SequentialSteps ==
  [][\A j \in Jobs : \A s \in Slots :
       LET r == run[j][s]
           q == run'[j][s]
       IN /\ (r.pc \in {"fetch", "clear200"} /\ q.pc = "read")
               => q.chunkIndex \in {r.base, 0}
          /\ (r.pc = "read" /\ q.pc \in {"read", "append"})
               => q.chunkIndex = r.chunkIndex
          /\ (r.pc = "append" /\ q.pc = "read")
               => q.chunkIndex = r.chunkIndex + 1
          /\ (r.pc = "append" /\ q.pc = "append") => q.chunkIndex = r.chunkIndex]_vars

\* C29 (pause keeps the store consistent), as the specification states it:
\* pause() leaves the job in status paused; while the job is paused no step
\* changes the chunks or the metadata of its URL and the job does not
\* complete: it stays paused or is restarted, and the restarted execution
\* begins with an empty buffer; and the metadata of a paused job counts
\* exactly the bytes of the chunks stored.
C29_PauseKeepsStore ==
  /\ [][\A j \in Jobs :
         /\ (job[j].status = "running" /\ job'[j].ctlAborted
             /\ ~job[j].ctlAborted /\ job'[j].via = job[j].via
             /\ job'[j].status # "error")
              => job'[j].status = "paused"
         /\ job[j].status = "paused"
              => /\ job'[j].status \in {"paused", "running"}
                 /\ meta'[job[j].url] = meta[job[j].url]
                 /\ chunks'[job[j].url] = chunks[job[j].url]
                 /\ job'[j].status = "running"
                      => \E s \in Slots : /\ run[j][s].pc = "off"
                                          /\ run'[j][s].pc = "getMeta"
                                          /\ run'[j][s].pending = <<>>]_vars
  /\ [](\A j \in Jobs :
          job[j].status = "paused"
            => LET m == meta[job[j].url]
               IN m.downloadedBytes = SumSizes(chunks[job[j].url], m.chunkCount))

\* The part of C29 that holds of an execution that is not awaiting
\* appendChunk when pause() is called: from then on it stores nothing and
\* ends paused.
PausedSteps ==
  [][\A j \in Jobs : \A s \in Slots :
       (run[j][s].aborted /\ run[j][s].pc \in {"fetch", "read"})
         => /\ run'[j][s].pc \in {run[j][s].pc, "off"}
            /\ run'[j][s].pc = "off"
                 => /\ meta' = meta /\ chunks' = chunks
                    /\ job'[j].status = "paused"]_vars

\* C30 (I2), as the specification states it: in every state, the metadata of
\* a URL with totalBytes > 0 has downloadedBytes <= totalBytes.
C30_I2 ==
  \A u \in Urls :
    (meta[u].exists /\ meta[u].totalBytes > 0)
      => meta[u].downloadedBytes <= meta[u].totalBytes

\* C31 (chunk size bound), as the specification states it: every chunk handed
\* to appendChunk or pushed to memory has at most bufferSize bytes.
C31_ChunkAtMostWindow ==
  \A j \in Jobs :
    /\ \A s \in Slots :
         run[j][s].pc = "append" => Len(run[j][s].pending) <= bufferSize
    /\ \A i \in DOMAIN job[j].memoryChunks :
         Len(job[j].memoryChunks[i]) <= bufferSize

\* C31 as it holds: the buffer is flushed exactly when a read brings it to
\* bufferSize bytes or more, or when the response ends with a non-empty
\* buffer; so a chunk flushed before the end has at least bufferSize bytes and
\* fewer than bufferSize plus the bytes of the read that filled it, the chunk
\* flushed at the end has fewer than bufferSize bytes, no chunk is empty, and
\* a buffer that is kept holds fewer than bufferSize bytes.
C31_ChunkUnderWindowPlusRead ==
  /\ [][\A j \in Jobs : \A s \in Slots :
         LET r == run[j][s]
             q == run'[j][s]
             mem == job[j].memoryChunks
             mem2 == job'[j].memoryChunks
         IN (r.pc = "read" /\ q # r /\ ~r.aborted)
              => /\ (q.pc = "append" /\ ~q.final)
                      => /\ Len(r.pending) < bufferSize
                         /\ Len(q.pending) >= bufferSize
                         /\ Len(q.pending) <= Len(r.pending) + MaxRead
                 /\ (q.pc = "append" /\ q.final)
                      => /\ q.pending = r.pending
                         /\ Len(q.pending) > 0
                         /\ Len(q.pending) < bufferSize
                 /\ q.pc = "read" => Len(q.pending) < bufferSize
                 /\ mem2 # mem
                      => /\ Len(mem2) = Len(mem) + 1
                         /\ Len(mem2[Len(mem2)]) > 0
                         /\ Len(mem2[Len(mem2)]) < bufferSize + MaxRead
                         /\ q.pc = "read"
                              => Len(mem2[Len(mem2)]) >= bufferSize
                 /\ (q.pc = "off" /\ job'[j].status = "completed"
                     /\ mem2 = mem)
                      => r.pending = <<>>]_vars
  /\ [](\A j \in Jobs : \A s \in Slots :
          run[j][s].pc = "append"
            => /\ Len(run[j][s].pending) > 0
               /\ Len(run[j][s].pending) < bufferSize + MaxRead)

\* A chunk of more than bufferSize bytes is handed to appendChunk.
C31_Witness ==
  \E j \in Jobs : \E s \in Slots :
    /\ run[j][s].pc = "append" /\ ~run[j][s].final
    /\ Len(run[j][s].pending) = bufferSize + 1

\* C32 (no data loss at finalization in store mode), as the specification
\* states it: finalization clears the store of a URL only when the cache
\* holds an entry for it, a finalization that fails leaves the chunks and the
\* metadata as they were, and while a call is finalizing a job completed in
\* store mode, no step removes the metadata of its URL unless the cache holds
\* the entry.
C32_NoLossAtFinalization ==
  [][\A c \in Callers :
       LET k == call[c]
       IN /\ (k.pc = "finclear" /\ call'[c].pc # "finclear")
               => cache[k.url].exists
          /\ (k.pc \in {"finalize", "stream"} /\ call'[c].pc = "failed")
               => (meta' = meta /\ chunks' = chunks)
          /\ (k.pc \in {"finalize", "stream", "finclear"} /\ ~k.blob.has
              /\ meta[k.url].exists /\ ~meta'[k.url].exists)
               => cache[k.url].exists]_vars

\* The part of C32 that is finalizeCache's own: it clears the store only
\* after its put, and when it fails it leaves the store as it was.
FinalizeSteps ==
  [][\A c \in Callers :
       LET k == call[c]
       IN /\ (k.pc = "finclear" /\ call'[c].pc # "finclear")
               => cache[k.url].exists
          /\ (k.pc \in {"finalize", "stream"} /\ call'[c] # k)
               => (meta' = meta /\ chunks' = chunks)]_vars

\* The place of job j in the queue q, 0 when it is not in it.
Place(q, j) == IF \E i \in DOMAIN q : q[i] = j
               THEN CHOOSE i \in DOMAIN q : q[i] = j ELSE 0

\* C33 (FIFO admission): every step leaves the queue as it was with some
\* jobs taken from its head, all of them started, and at most one new job
\* put at its tail; and a job started in a step was ahead of every job that
\* still waits after the step (a job started without having waited leaves
\* nobody waiting).
C33_Fifo ==
  [][/\ \E n \in 0..Len(queue) :
          /\ \A i \in 1..n : /\ job[queue[i]].status = "pending"
                             /\ job'[queue[i]].status = "running"
          /\ \/ queue' = SubSeq(queue, n + 1, Len(queue))
             \/ \E j \in Jobs : /\ job[j].status = "none"
                                /\ job'[j].status = "pending"
                                /\ queue' = Append(SubSeq(queue, n + 1,
                                                          Len(queue)), j)
     /\ \A j \in Jobs :
          (job[j].status # "running" /\ job'[j].status = "running")
            => /\ Place(queue', j) = 0
               /\ \A k \in Jobs :
                    Place(queue', k) # 0
                      => IF Place(queue, k) = 0
                         THEN Place(queue, j) # 0
                         ELSE /\ Place(queue, j) # 0
                              /\ Place(queue, j) < Place(queue, k)]_vars

\* Five jobs for five URLs: one of the first three has finished, job 5 runs
\* and job 4, asked for earlier, still waits at the head of the queue.
C33_Witness ==
  /\ queue = <<4>>
  /\ job[5].status = "running" /\ job[4].status = "pending"
  /\ \A j \in 1..3 : job[j].status \in {"running", "completed", "error"}
  /\ Cardinality({job[j].url : j \in Jobs}) = 5
  /\ activeCount = MAX_CONCURRENT
  /\ Cardinality({j \in Jobs : job[j].status \in {"completed", "error"}}) = 1

\* C34 (queue liveness), as the specification states it: when every running
\* job ends, every job waiting in the queue is eventually started and every
\* call waiting on a job is eventually settled (its job's completion or
\* error is delivered to it).
C34_QueueLiveness ==
  /\ \A j \in 1..SchedCallers :
       (job[j].status = "pending") ~> (job[j].status = "running")
  /\ \A c \in 1..SchedCallers :
       (call[c].pc = "waiting") ~> (call[c].pc \in {"finalize", "failed"})

\* C35 (a job that ends paused leaks nothing in the scheduler), as the
\* specification states it: once a paused job has no execution in progress,
\* the scheduler's active count is the number of running jobs, the URL of the
\* job is no longer registered to it, and no call is still waiting on it.
C35_PausedJobReleased ==
  \A j \in Jobs :
    (job[j].status = "paused" /\ \A s \in Slots : run[j][s].pc = "off")
      => /\ activeCount = Cardinality(Running)
         /\ jobs[job[j].url] # j
         /\ \A c \in Callers : call[c].job = j => call[c].pc # "waiting"

\* C36 (no overlap between finalization and a new job for the same URL), as
\* the specification states it: while a call is finalizing the job of a URL
\* (from the job's completion until store.clear has returned), no other job
\* for that URL is pending or running.
C36_NoOverlap ==
  \A c \in Callers :
    call[c].pc \in {"finalize", "stream", "finclear"}
      => \A k \in Jobs :
           (k # call[c].job /\ job[k].url = call[c].url)
             => job[k].status \notin {"pending", "running"}

\* The executions of _execute of job j that are in progress.
Executions(j) == {s \in Slots : run[j][s].pc # "off"}

\* C37 (single execution per job), as the specification states it: at most
\* one execution of a job is in progress in any state, also when pause() is
\* followed by start() before the aborted execution has unwound.
C37_SingleExecution ==
  \A j \in Jobs : Cardinality(Executions(j)) <= 1

\* C38 (deleteFromCache versus a running job), as the specification states
\* it: in every state the metadata of a URL covers only stored chunks and
\* its downloadedBytes is the sum of their sizes, and no finalization fails
\* on a missing chunk.
C38_DeleteKeepsStore ==
  /\ \A u \in Urls :
       /\ \A i \in 0..(meta[u].chunkCount - 1) : hasChunk(chunks[u], i)
       /\ meta[u].downloadedBytes = SumSizes(chunks[u], meta[u].chunkCount)
  /\ \A c \in Callers :
       call[c].pc = "failed" => call[c].error # "missing chunk"

\* A finalization fails on a chunk that deleteFromCache removed.
MissingAfterDelete ==
  /\ call[1].pc = "failed" /\ call[1].error = "missing chunk"
  /\ call[2].pc = "deleted"

(* ---- C39 ---- *)
\* Call c failed in finalizeCache: on the integrity check or on a chunk the
\* stream did not find.
FinalizeFailed(c) ==
  /\ call[c].pc = "failed"
  /\ call[c].error \in {"integrity", "missing chunk"}

\* C39: once an acquire has failed at finalization because downloaded_bytes
\* differs from total_bytes or a chunk is missing, a later acquire against a
\* server that serves the resource correctly succeeds.
C39_FailedFinalizationRecovers ==
  \A c \in 1..Unreliable :
    FinalizeFailed(c) ~> \E d \in (Unreliable + 1)..RetryCallers :
                           call[d].pc = "resolved"

\* Two acquires in a row against the correct server fail on the same
\* integrity check, and leave the store as they found it.
RetriesFailAlike ==
  /\ \A d \in (Unreliable + 1)..RetryCallers :
       /\ call[d].pc = "failed" /\ call[d].error = "integrity"
       /\ job[d].via = "done416"
  /\ meta[1].exists /\ meta[1].downloadedBytes = Len(server.body)
  /\ meta[1].totalBytes # Len(server.body)

(* ---- C40 ---- *)
\* C40: finalizeCache puts the blob of a job that completed in memory mode
\* into the cache only if the blob has as many bytes as the server announced
\* (Content-Length plus the offset of the request).
C40_MemoryFinalizationStrict ==
  [][\A c \in Callers :
       (call[c].pc = "finalize" /\ call[c].blob.has
          /\ cache'[call[c].url] # cache[call[c].url])
         => Len(call[c].blob.bytes)
              = job[call[c].job].seen.cl + job[call[c].job].from]_vars

\* A blob that is not the resource is in the cache, under its own length.
MemoryBlobCached ==
  \E c \in Callers :
    /\ call[c].pc \in {"finclear", "resolved"}
    /\ call[c].blob.has
    /\ cache[call[c].url].exists
    /\ cache[call[c].url].bytes = call[c].blob.bytes
    /\ cache[call[c].url].bytes # server.body
    /\ cache[call[c].url].contentLength = Len(call[c].blob.bytes)
====
